---- MODULE Spec2Model ----
(***************************************************************************)
(* The agent control client of etc/test-agent.py and etc/test-handoff.py:  *)
(* a script starts the agent as a child process, reads one line (the       *)
(* ready signal), then calls send() for a fixed sequence of commands, and  *)
(* in a finally block closes the child's stdin and waits for it to exit.   *)
(* The agent itself is an external process: it is the environment of the   *)
(* model, free to answer, to emit other lines, to close its output and to  *)
(* exit at any moment.                                                      *)
(***************************************************************************)
EXTENDS Integers, Sequences, FiniteSets, TLC

(* ------------------------------ bounds -------------------------------- *)

\* Most unsolicited lines the agent emits after its ready line.
MaxStray == 1

\* Most clock ticks counted while the script is blocked in one call.
MaxTicks == 2

\* A wait budget and a grace period, in ticks, as a caller of the specified
\* requestHandoff / stop would pass them; the scripts pass none.
WaitBudget == 0
GracePeriod == 0

\* generate-capabilities.py: the most items a capability list holds in one
\* category (one fewer in two categories).
MaxNodes == 3

(* ----------------------------- characters ----------------------------- *)

\* Strings are sequences of characters; a run of ordinary characters is kept
\* as one element.  NL, QT and BS are the line terminator, the double quote
\* and the backslash.
NL == "NL"
QT == "QT"
BS == "BS"

\* An encoder that escapes the quote and the backslash only.
RECURSIVE json_dumps_str_RawNL(_)
json_dumps_str_RawNL(s) ==
    IF s = <<>> THEN <<>>
    ELSE LET c == Head(s)
             e == IF c = QT THEN <<BS, QT>>
                  ELSE IF c = BS THEN <<BS, BS>>
                  ELSE <<c>>
         IN  e \o json_dumps_str_RawNL(Tail(s))

\* json.dumps of a string: the body between the quotes, with the line
\* terminator, the quote and the backslash escaped.
RECURSIVE json_dumps_str(_)
json_dumps_str(s) ==
    IF s = <<>> THEN <<>>
    ELSE LET c == Head(s)
             e == IF c = NL THEN <<BS, "n">>
                  ELSE IF c = QT THEN <<BS, QT>>
                  ELSE IF c = BS THEN <<BS, BS>>
                  ELSE <<c>>
         IN  e \o json_dumps_str(Tail(s))

\* msg = json.dumps({"command": "eval", "payload": js_code})
msg(js_code) ==
    <<"{", QT, "command", QT, ": ", QT, "eval", QT, ", ", QT, "payload", QT, ": ", QT>>
        \o json_dumps_str(js_code) \o <<QT, "}">>

(* ------------------------- the agent's lines -------------------------- *)

\* A decoded JSON value, as far as the scripts look into it.
\*   kind     "obj" for a JSON object, "nonobj" for any other JSON value
\*   command  the "command" member ("none" when absent)
\*   pkind    the "payload" member: "absent", "scalar" (not an object), "dict"
\*   ekind    payload.elapsed: "absent" or "int"
\*   elapsed  its value (0 when absent)
\*   akind    payload.actions: "absent", "empty" ({}), "dict" (non-empty)
\*   ref      the first key of payload.actions
\*   acts     the action names listed under that key
JVal(kind, command, pkind, ekind, elapsed, akind, ref, acts) ==
    [kind |-> kind, command |-> command, pkind |-> pkind, ekind |-> ekind,
     elapsed |-> elapsed, akind |-> akind, ref |-> ref, acts |-> acts]

NoVal == JVal("none", "none", "absent", "absent", 0, "absent", <<>>, {})

\* 2
ValNumber == JVal("nonobj", "none", "absent", "absent", 0, "absent", <<>>, {})
\* {"command": "result", "payload": 2}
ValScalar == JVal("obj", "result", "scalar", "absent", 0, "absent", <<>>, {})
\* {"command": "error", "payload": "message"}
ValError == JVal("obj", "error", "scalar", "absent", 0, "absent", <<>>, {})
\* {"command": "result"}
ValBare == JVal("obj", "result", "absent", "absent", 0, "absent", <<>>, {})
\* {"command": "result", "payload": {"elapsed": 50}}
ValElapsed == JVal("obj", "result", "dict", "int", 50, "absent", <<>>, {})
\* {"command": "result", "payload": {"elapsed": -5}}
ValNegative == JVal("obj", "result", "dict", "int", -5, "absent", <<>>, {})
\* {"command": "result", "payload": {"actions": {}}}
ValNoActions == JVal("obj", "result", "dict", "absent", 0, "empty", <<>>, {})
\* {"command": "result", "payload": {"actions": {"e1": ["input", "click"]}}}
ValInput == JVal("obj", "result", "dict", "absent", 0, "dict", <<"e1">>, {"input", "click"})
\* {"command": "result", "payload": {"actions": {"e\n1": ["click"]}}}
ValClick == JVal("obj", "result", "dict", "absent", 0, "dict", <<"e", NL, "1">>, {"click"})
\* {"command": "result", "payload": {"actions": {"e1": ["focus"]}}}
ValFocus == JVal("obj", "result", "dict", "absent", 0, "dict", <<"e1">>, {"focus"})

\* A line of the child's output: text "json" (a JSON document, val), "text"
\* (decodable text that is no JSON document), "bytes" (not valid in the
\* pipe's text encoding) or "" (the empty string readline returns at
\* end-of-stream).
Line(text, val) == [text |-> text, val |-> val]

ReadyLine == Line("text", NoVal)
BadLine == Line("text", NoVal)
BytesLine == Line("bytes", NoVal)
EofLine == Line("", NoVal)

JsonLines ==
    { Line("json", v) : v \in {ValNumber, ValScalar, ValError, ValBare, ValElapsed,
                               ValNegative, ValNoActions, ValInput, ValClick, ValFocus} }

\* What the agent may put on its output for one request.
AgentLines == JsonLines \cup {BadLine, BytesLine}

\* What the agent may put on its output unasked.
StrayLines == {Line("json", ValScalar), BadLine}

(* ------------------------------- state -------------------------------- *)

VARIABLES
    script,      \* "agent" (test-agent.py) or "handoff" (test-handoff.py)
    pc,          \* where main is: "ready", "write", "read", "close", "wait",
                 \* "done" (main returned) or "raised" (main left by an exception)
    step,        \* which send of main is being made or comes next
    js,          \* the js_code of that send
    result,      \* what the last send returned
    error,       \* the exception a call has raised ("none" so far)
    ready,       \* what the ready readline returned ("none" before it)
    success,     \* the success message has been printed
    stdinPipe,   \* characters written to the child's stdin, not yet consumed
    stdinClosed, \* proc.stdin is closed
    pending,     \* proc.stdin's buffer holds data a failed flush left in it
    stdoutPipe,  \* lines the child has emitted, not yet read; each carries the
                 \* number of the request it answers (0: none)
    agent,       \* "starting", "serving" or "exited"
    outOpen,     \* the child's end of its output pipe is open
    consumed,    \* request lines the agent has taken from its stdin
    strays,      \* unsolicited lines emitted after the ready line
    waited,      \* ticks since the script blocked in the current call
    nWritten,    \* request lines written by send
    nRead,       \* lines read by send
    lastRead,    \* the pipe entry the last readline of send took
    waitedFor,   \* proc.wait() has returned
    genpc,       \* generate-capabilities.py: "idle" (not run), "count",
                 \* "render" or "done"
    data,        \* data['categories']: for each category its 'items' list
    counts,      \* the counts of generate_markdown, by bucket
    total,       \* the number printed as "Total capabilities"
    rendered     \* for each category, the status of each line render_item
                 \* returns, in order

vars == <<script, pc, step, js, result, error, ready, success, stdinPipe,
          stdinClosed, pending, stdoutPipe, agent, outOpen, consumed, strays,
          waited, nWritten, nRead, lastRead, waitedFor,
          genpc, data, counts, total, rendered>>

clientVars == <<script, pc, step, js, result, error, ready, success,
                stdinClosed, pending, nWritten, nRead, lastRead, waitedFor>>

agentVars == <<agent, outOpen, consumed, strays>>

genVars == <<genpc, data, counts, total, rendered>>

Entry(line, for) == [line |-> line, for |-> for]

NoEntry == Entry(EofLine, 0)

(* ----------------------- generate-capabilities.py -------------------- *)

\* A capability item of CAPABILITIES.yaml: its 'v1' key ("absent", "true",
\* "false"), its 'v2' and 'status' keys ("absent" or the value) and its
\* 'items' list (empty when the key is absent: both are rendered and counted
\* alike).
Item(v1, v2, status, items) == [v1 |-> v1, v2 |-> v2, status |-> status, items |-> items]

\* The keys an item carries, apart from 'items'.
Labels ==
    { <<"absent", "absent", "absent">>,
      <<"absent", "implemented", "absent">>,
      <<"absent", "in_progress", "absent">>,
      <<"absent", "planned", "absent">>,
      <<"true", "implemented", "absent">>,
      <<"true", "in_progress", "absent">>,
      <<"absent", "absent", "existing">>,
      <<"absent", "implemented", "existing">>,
      <<"absent", "existing", "absent">> }

\* The shapes of the item lists of exactly n items, nested to any depth:
\* every item without keys.
RECURSIVE Shapes(_)
Shapes(n) ==
    IF n = 0 THEN {<<>>}
    ELSE UNION { LET subs == Shapes(k - 1)
                     rests == Shapes(n - k)
                 IN  { <<Item("absent", "absent", "absent", sub)>> \o rest :
                         sub \in subs, rest \in rests }
                 : k \in 1..n }

\* The shapes of the category lists of one category with n items, or of two
\* categories with n - 1 items between them.
CategoryShapes(n) ==
    { <<c>> : c \in Shapes(n) }
    \cup UNION { LET firsts == Shapes(k)
                     seconds == Shapes(n - 1 - k)
                 IN  { <<c1, c2>> : c1 \in firsts, c2 \in seconds }
                 : k \in 0..(n - 1) }

\* The number of items of a list, sub-items included.
RECURSIVE Size(_)
Size(items) ==
    IF items = <<>> THEN 0
    ELSE 1 + Size(Head(items).items) + Size(Tail(items))

\* The item list of a shape whose items carry, in the order of the
\* document, the keys keys[i + 1], keys[i + 2], ...
RECURSIVE WithKeys(_, _, _)
WithKeys(items, keys, i) ==
    IF items = <<>> THEN <<>>
    ELSE LET l == keys[i + 1]
             sub == Head(items).items
         IN  <<Item(l[1], l[2], l[3], WithKeys(sub, keys, i + 1))>>
             \o WithKeys(Tail(items), keys, i + 1 + Size(sub))

RECURSIVE CategoriesWithKeys(_, _, _)
CategoriesWithKeys(categories, keys, i) ==
    IF categories = <<>> THEN <<>>
    ELSE <<WithKeys(Head(categories), keys, i)>>
         \o CategoriesWithKeys(Tail(categories), keys, i + Size(Head(categories)))

Buckets == {"v1_implemented", "v1_in_progress", "v1_pending", "new_implemented",
            "new_in_progress", "planned", "future"}

\* counts = defaultdict(int)
NoCounts == [b \in Buckets |-> 0]

\* item.get('v2', item.get('status', 'future'))
get_v2(item) ==
    IF item.v2 # "absent" THEN item.v2
    ELSE IF item.status # "absent" THEN item.status
    ELSE "future"

\* A bucket choice without the mapping of 'existing'.
bucket_NoExisting(item) ==
    LET v1 == item.v1 = "true"
        v2 == get_v2(item)
    IN  IF v1 /\ v2 = "implemented" THEN "v1_implemented"
        ELSE IF v1 /\ v2 = "in_progress" THEN "v1_in_progress"
        ELSE IF v1 THEN "v1_pending"
        ELSE IF v2 = "implemented" THEN "new_implemented"
        ELSE IF v2 = "in_progress" THEN "new_in_progress"
        ELSE IF v2 = "planned" THEN "planned"
        ELSE "future"

\* count_by_status, lines 48-70: the bucket one item is counted in.
bucket(item) ==
    LET v2_0 == get_v2(item)
        v1 == IF v2_0 = "existing" THEN TRUE ELSE item.v1 = "true"
        v2 == IF v2_0 = "existing" THEN "planned" ELSE v2_0
    IN  IF v1 /\ v2 = "implemented" THEN "v1_implemented"
        ELSE IF v1 /\ v2 = "in_progress" THEN "v1_in_progress"
        ELSE IF v1 THEN "v1_pending"
        ELSE IF v2 = "implemented" THEN "new_implemented"
        ELSE IF v2 = "in_progress" THEN "new_in_progress"
        ELSE IF v2 = "planned" THEN "planned"
        ELSE "future"

RECURSIVE count_by_status(_, _)
count_by_status(items, c) ==
    IF items = <<>> THEN c
    ELSE LET item == Head(items)
             c1 == [c EXCEPT ![bucket(item)] = @ + 1]
             c2 == count_by_status(item.items, c1)
         IN  count_by_status(Tail(items), c2)

\* sum(counts.values())
RECURSIVE SumOver(_, _)
SumOver(c, bs) ==
    IF bs = {} THEN 0
    ELSE LET b == CHOOSE x \in bs : TRUE IN c[b] + SumOver(c, bs \ {b})

CHECK == "U+2713"

V2_STATUS_SYMBOLS(v2) ==
    CASE v2 = "implemented" -> CHECK
      [] v2 = "in_progress" -> "~"
      [] v2 = "planned" -> " "
      [] OTHER -> "-"

\* render_item, lines 83-104: the text between the brackets of an item's line.
status_str(item) ==
    LET v2_0 == get_v2(item)
        v1 == IF v2_0 = "existing" THEN TRUE ELSE item.v1 = "true"
        v2 == IF v2_0 = "existing" THEN "planned" ELSE v2_0
    IN  IF v1 THEN <<"1.x ", V2_STATUS_SYMBOLS(v2)>>
        ELSE IF v2 = "implemented" THEN <<"v2">>
        ELSE IF v2 = "in_progress" THEN <<"~">>
        ELSE IF v2 = "planned" THEN <<" ">>
        ELSE <<"-">>

\* render_item: the item's line, then the lines of its sub-items.
RECURSIVE render_item(_)
RECURSIVE render_items(_)
render_item(item) == <<status_str(item)>> \o render_items(item.items)
render_items(items) ==
    IF items = <<>> THEN <<>>
    ELSE render_item(Head(items)) \o render_items(Tail(items))

GenIdle ==
    /\ genpc = "idle"
    /\ data = <<>>
    /\ counts = NoCounts
    /\ total = 0
    /\ rendered = <<>>

(* --------------------------- the scripts' main ------------------------ *)

GoExample == <<"agent.go('https://example.com')">>
GoForm == <<"agent.go('https://httpbin.org/forms/post')">>
Look == <<"agent.look()">>
Handoff == <<"agent.handoff('Please click the Resume button to continue')">>
ActInput(first_ref) == <<"agent.act('">> \o first_ref \o <<"', 'input', 'test value')">>
ActClick(first_ref) == <<"agent.act('">> \o first_ref \o <<"', 'click')">>

\* The step of main at which the handoff is requested (test-handoff.py).
HandoffStep == 3
\* The last send of each main.
LastStep(s) == IF s = "agent" THEN 6 ELSE 4

\* Where main goes once a send has returned: [error, step, js], step 0 when
\* the sequence is complete.
Goto(e, st, j) == [error |-> e, step |-> st, js |-> j]

\* A main that prefers "click" to "input".
AfterLook_ClickFirst(r) ==
    IF r.kind # "obj" THEN Goto("AttributeError", 4, <<>>)
    ELSE IF r.command # "result" THEN Goto("none", 6, Look)
    ELSE IF r.pkind = "scalar" THEN Goto("AttributeError", 4, <<>>)
    ELSE IF r.pkind = "absent" \/ r.akind # "dict" THEN Goto("none", 6, Look)
    ELSE IF "click" \in r.acts THEN Goto("none", 5, ActClick(r.ref))
    ELSE IF "input" \in r.acts THEN Goto("none", 5, ActInput(r.ref))
    ELSE Goto("none", 6, Look)

\* test-agent.py, after the fourth send (lines 48-57).
AfterLook(r) ==
    IF r.kind # "obj" THEN Goto("AttributeError", 4, <<>>)
    ELSE IF r.command # "result" THEN Goto("none", 6, Look)
    ELSE IF r.pkind = "scalar" THEN Goto("AttributeError", 4, <<>>)
    ELSE IF r.pkind = "absent" \/ r.akind # "dict" THEN Goto("none", 6, Look)
    ELSE IF "input" \in r.acts THEN Goto("none", 5, ActInput(r.ref))
    ELSE IF "click" \in r.acts THEN Goto("none", 5, ActClick(r.ref))
    ELSE Goto("none", 6, Look)

\* A main that stops after the handoff, without the look that follows it.
AfterHandoff_NoLook(r) ==
    IF r.kind # "obj" \/ r.pkind = "scalar" THEN Goto("AttributeError", 3, <<>>)
    ELSE Goto("none", 0, <<>>)

\* test-handoff.py, after the handoff send (line 46).
AfterHandoff(r) ==
    IF r.kind # "obj" \/ r.pkind = "scalar" THEN Goto("AttributeError", 3, <<>>)
    ELSE Goto("none", 4, Look)

AgentMain(st, r) ==
    CASE st = 1 -> Goto("none", 2, Look)
      [] st = 2 -> Goto("none", 3, GoForm)
      [] st = 3 -> Goto("none", 4, Look)
      [] st = 4 -> AfterLook(r)
      [] st = 5 -> Goto("none", 6, Look)
      [] OTHER -> Goto("none", 0, <<>>)

HandoffMain(st, r) ==
    CASE st = 1 -> Goto("none", 2, Look)
      [] st = 2 -> Goto("none", 3, Handoff)
      [] st = 3 -> AfterHandoff(r)
      [] OTHER -> Goto("none", 0, <<>>)

main(s, st, r) == IF s = "agent" THEN AgentMain(st, r) ELSE HandoffMain(st, r)

\* An exception raised inside the try block is caught by main's except clause,
\* which prints it and falls through to the finally block: no send follows.
OnRaise_Retry == "write"

OnRaise == "close"

(* -------------------------------- send -------------------------------- *)

\* proc.stdout.readline(): the next line of the pipe, or "" at end-of-stream.
readline(pipe) == IF pipe = <<>> THEN NoEntry ELSE Head(pipe)

\* readline can return: a line is there, or the stream has ended.
CanRead == stdoutPipe # <<>> \/ ~outOpen

\* A decoder that loses the payload of the document.
json_loads_NoPayload(line) ==
    IF line.text = "json"
    THEN [ok |-> TRUE, val |-> [line.val EXCEPT !.pkind = "absent"]]
    ELSE [ok |-> FALSE, val |-> NoVal]

\* json.loads(response): the value, or the failure to decode.
json_loads(line) ==
    IF line.text = "json" THEN [ok |-> TRUE, val |-> line.val]
    ELSE [ok |-> FALSE, val |-> NoVal]

\* The write end of stdin works while the child holds the read end.
WriteFails == agent = "exited"

\* The state after Popen (lines 21-28 / 20-27): the child runs, nothing has
\* been written or read.
Init ==
    /\ script \in {"agent", "handoff"}
    /\ pc = "ready"
    /\ step = 1
    /\ js = GoExample
    /\ result = NoVal
    /\ error = "none"
    /\ ready = "none"
    /\ success = FALSE
    /\ stdinPipe = <<>>
    /\ stdinClosed = FALSE
    /\ pending = FALSE
    /\ stdoutPipe = <<>>
    /\ agent = "starting"
    /\ outOpen = TRUE
    /\ consumed = 0
    /\ strays = 0
    /\ waited = 0
    /\ nWritten = 0
    /\ nRead = 0
    /\ lastRead = NoEntry
    /\ waitedFor = FALSE
    /\ GenIdle

\* ready = proc.stdout.readline(), before the try block.  A line that cannot
\* be decoded raises out of main; end-of-stream returns "".
ReadReady ==
    /\ pc = "ready"
    /\ CanRead
    /\ LET e == readline(stdoutPipe)
       IN  /\ stdoutPipe' = IF stdoutPipe = <<>> THEN <<>> ELSE Tail(stdoutPipe)
           /\ IF e.line.text = "bytes"
              THEN /\ pc' = "raised"
                   /\ error' = "UnicodeDecodeError"
                   /\ ready' = "none"
              ELSE /\ pc' = "write"
                   /\ error' = error
                   /\ ready' = IF e.line = EofLine THEN "eof" ELSE "line"
    /\ waited' = 0
    /\ UNCHANGED <<script, step, js, result, success, stdinPipe, stdinClosed,
                   pending, nWritten, nRead, lastRead, waitedFor>>
    /\ UNCHANGED agentVars
    /\ UNCHANGED genVars

\* A send that returns after the flush, without reading a line.
SendWrite_NoRead ==
    /\ pc = "write"
    /\ ~WriteFails
    /\ stdinPipe' = stdinPipe \o msg(js) \o <<NL>>
    /\ nWritten' = nWritten + 1
    /\ step' = IF step < LastStep(script) THEN step + 1 ELSE step
    /\ pc' = IF step < LastStep(script) THEN "write" ELSE "close"
    /\ waited' = 0
    /\ UNCHANGED <<script, js, result, error, ready, success, stdinClosed, pending,
                   stdoutPipe, nRead, lastRead, waitedFor>>
    /\ UNCHANGED agentVars
    /\ UNCHANGED genVars

\* send, up to the flush: the request line goes to the pipe, or the write
\* fails with the data left in the buffer and main's except clause runs.
SendWrite ==
    /\ pc = "write"
    /\ IF WriteFails
       THEN /\ error' = "BrokenPipeError"
            /\ pending' = TRUE
            /\ pc' = OnRaise
            /\ UNCHANGED <<stdinPipe, nWritten>>
       ELSE /\ stdinPipe' = stdinPipe \o msg(js) \o <<NL>>
            /\ nWritten' = nWritten + 1
            /\ pc' = "read"
            /\ UNCHANGED <<error, pending>>
    /\ waited' = 0
    /\ UNCHANGED <<script, step, js, result, ready, success, stdinClosed,
                   stdoutPipe, nRead, lastRead, waitedFor>>
    /\ UNCHANGED agentVars
    /\ UNCHANGED genVars

\* send, from the readline on, and main up to its next send: the line is
\* decoded and returned, or the exception takes main to its finally block.
SendRead ==
    /\ pc = "read"
    /\ CanRead
    /\ LET e == readline(stdoutPipe)
           d == json_loads(e.line)
           g == main(script, step, d.val)
       IN  /\ stdoutPipe' = IF stdoutPipe = <<>> THEN <<>> ELSE Tail(stdoutPipe)
           /\ nRead' = IF stdoutPipe = <<>> THEN nRead ELSE nRead + 1
           /\ lastRead' = e
           /\ IF e.line.text = "bytes"
              THEN /\ error' = "UnicodeDecodeError"
                   /\ pc' = OnRaise
                   /\ UNCHANGED <<result, step, js, success>>
              ELSE IF ~d.ok
              THEN /\ error' = "JSONDecodeError"
                   /\ pc' = OnRaise
                   /\ UNCHANGED <<result, step, js, success>>
              ELSE /\ result' = d.val
                   /\ error' = g.error
                   /\ IF g.error # "none"
                      THEN /\ pc' = OnRaise
                           /\ UNCHANGED <<step, js, success>>
                      ELSE IF g.step = 0
                      THEN /\ pc' = "close"
                           /\ success' = TRUE
                           /\ UNCHANGED <<step, js>>
                      ELSE /\ pc' = "write"
                           /\ step' = g.step
                           /\ js' = g.js
                           /\ UNCHANGED success
    /\ waited' = 0
    /\ UNCHANGED <<script, ready, stdinPipe, stdinClosed, pending, nWritten,
                   waitedFor>>
    /\ UNCHANGED agentVars
    /\ UNCHANGED genVars

\* finally: proc.stdin.close().  Closing flushes first: data a failed write
\* left in the buffer makes the close raise (the descriptor is closed all the
\* same) and proc.wait() is not reached.
StdinClose ==
    /\ pc = "close"
    /\ stdinClosed' = TRUE
    /\ IF pending
       THEN /\ pc' = "raised"
            /\ error' = "BrokenPipeError"
       ELSE /\ pc' = "wait"
            /\ error' = error
    /\ waited' = 0
    /\ UNCHANGED <<script, step, js, result, ready, success, stdinPipe, pending,
                   stdoutPipe, nWritten, nRead, lastRead, waitedFor>>
    /\ UNCHANGED agentVars
    /\ UNCHANGED genVars

\* finally: proc.wait() returns when the child has exited.
ProcWait ==
    /\ pc = "wait"
    /\ agent = "exited"
    /\ pc' = "done"
    /\ waitedFor' = TRUE
    /\ waited' = 0
    /\ UNCHANGED <<script, step, js, result, error, ready, success, stdinPipe,
                   stdinClosed, pending, stdoutPipe, nWritten, nRead, lastRead>>
    /\ UNCHANGED agentVars
    /\ UNCHANGED genVars

(* ------------------------------ the agent ----------------------------- *)

\* The first line the child writes: its ready signal, of any content.
AgentReady ==
    /\ agent = "starting"
    /\ outOpen
    /\ \E l \in {ReadyLine, BytesLine} :
          stdoutPipe' = Append(stdoutPipe, Entry(l, 0))
    /\ agent' = "serving"
    /\ UNCHANGED <<outOpen, consumed, strays, stdinPipe, waited>>
    /\ UNCHANGED clientVars
    /\ UNCHANGED genVars

\* The characters of the pipe after its first line.
RECURSIVE AfterFirstLine(_)
AfterFirstLine(s) ==
    IF s = <<>> THEN <<>>
    ELSE IF Head(s) = NL THEN Tail(s)
    ELSE AfterFirstLine(Tail(s))

HasLine(s) == \E i \in 1..Len(s) : s[i] = NL

\* The agent takes one request line from its stdin and answers with one line.
AgentRespond ==
    /\ agent = "serving"
    /\ outOpen
    /\ HasLine(stdinPipe)
    /\ stdinPipe' = AfterFirstLine(stdinPipe)
    /\ consumed' = consumed + 1
    /\ \E l \in AgentLines :
          stdoutPipe' = Append(stdoutPipe, Entry(l, consumed + 1))
    /\ UNCHANGED <<agent, outOpen, strays, waited>>
    /\ UNCHANGED clientVars
    /\ UNCHANGED genVars

\* The agent emits a line no request asked for.
AgentStray ==
    /\ agent = "serving"
    /\ outOpen
    /\ strays < MaxStray
    /\ strays' = strays + 1
    /\ \E l \in StrayLines :
          stdoutPipe' = Append(stdoutPipe, Entry(l, 0))
    /\ UNCHANGED <<agent, outOpen, consumed, stdinPipe, waited>>
    /\ UNCHANGED clientVars
    /\ UNCHANGED genVars

\* The agent closes its output and keeps running.
AgentCloseStdout ==
    /\ agent # "exited"
    /\ outOpen
    /\ outOpen' = FALSE
    /\ UNCHANGED <<agent, consumed, strays, stdinPipe, stdoutPipe, waited>>
    /\ UNCHANGED clientVars
    /\ UNCHANGED genVars

\* The agent exits: both its pipe ends close.
AgentExit ==
    /\ agent # "exited"
    /\ agent' = "exited"
    /\ outOpen' = FALSE
    /\ UNCHANGED <<consumed, strays, stdinPipe, stdoutPipe, waited>>
    /\ UNCHANGED clientVars
    /\ UNCHANGED genVars

\* Time passes while the script is blocked in readline or in wait.
Blocked ==
    \/ pc \in {"ready", "read"} /\ ~CanRead
    \/ pc = "wait" /\ agent # "exited"

\* A clock that abandons the handoff's read once the wait budget is spent.
Tick_Timeout ==
    /\ Blocked
    /\ IF script = "handoff" /\ step = HandoffStep /\ pc = "read" /\ waited >= WaitBudget
       THEN /\ pc' = "write"
            /\ step' = step + 1
            /\ js' = Look
            /\ error' = "HandoffTimeout"
            /\ waited' = 0
       ELSE /\ waited < MaxTicks
            /\ waited' = waited + 1
            /\ UNCHANGED <<pc, step, js, error>>
    /\ UNCHANGED <<script, result, ready, success, stdinClosed, pending, nWritten,
                   nRead, lastRead, waitedFor, stdinPipe, stdoutPipe>>
    /\ UNCHANGED agentVars
    /\ UNCHANGED genVars

Tick ==
    /\ Blocked
    /\ waited < MaxTicks
    /\ waited' = waited + 1
    /\ UNCHANGED <<stdinPipe, stdoutPipe>>
    /\ UNCHANGED agentVars
    /\ UNCHANGED clientVars
    /\ UNCHANGED genVars

Next ==
    \/ ReadReady
    \/ SendWrite
    \/ SendRead
    \/ StdinClose
    \/ ProcWait
    \/ AgentReady
    \/ AgentRespond
    \/ AgentStray
    \/ AgentCloseStdout
    \/ AgentExit
    \/ Tick

Spec == Init /\ [][Next]_vars

\* generate-capabilities.py starts no agent: the scripts' variables keep
\* the values of a run that has not begun.
NoScript ==
    /\ script = "none"
    /\ pc = "done"
    /\ step = 1
    /\ js = <<>>
    /\ result = NoVal
    /\ error = "none"
    /\ ready = "none"
    /\ success = FALSE
    /\ stdinPipe = <<>>
    /\ stdinClosed = FALSE
    /\ pending = FALSE
    /\ stdoutPipe = <<>>
    /\ agent = "starting"
    /\ outOpen = TRUE
    /\ consumed = 0
    /\ strays = 0
    /\ waited = 0
    /\ nWritten = 0
    /\ nRead = 0
    /\ lastRead = NoEntry
    /\ waitedFor = FALSE

\* main has loaded the YAML file.
GenInit ==
    /\ NoScript
    /\ genpc = "count"
    /\ \E n \in 0..MaxNodes : \E shape \in CategoryShapes(n) :
         \E keys \in [1..n -> Labels] :
            data = CategoriesWithKeys(shape, keys, 0)
    /\ counts = NoCounts
    /\ total = 0
    /\ rendered = <<>>

RECURSIVE CountAll(_, _)
CountAll(categories, c) ==
    IF categories = <<>> THEN c
    ELSE CountAll(Tail(categories), count_by_status(Head(categories), c))

\* generate_markdown, lines 171-175: the summary statistics.
GenCount ==
    /\ genpc = "count"
    /\ counts' = CountAll(data, NoCounts)
    /\ total' = SumOver(counts', Buckets)
    /\ genpc' = "render"
    /\ UNCHANGED <<data, rendered>>
    /\ UNCHANGED <<clientVars, agentVars, stdinPipe, stdoutPipe, waited>>

\* generate_markdown, lines 209-210, through render_category: the items of
\* each category.
GenRender ==
    /\ genpc = "render"
    /\ rendered' = [i \in 1..Len(data) |-> render_items(data[i])]
    /\ genpc' = "done"
    /\ UNCHANGED <<data, counts, total>>
    /\ UNCHANGED <<clientVars, agentVars, stdinPipe, stdoutPipe, waited>>

GenNext ==
    \/ GenCount
    \/ GenRender

GenSpec == GenInit /\ [][GenNext]_vars

(* ------------------------------ properties ---------------------------- *)

\* main has left the command sequence: finally block, return or exception.
Closing == pc \in {"close", "wait", "done", "raised"}

\* The in-flight slot: a request line has been written and send has read no
\* line since.
SlotOccupied == nWritten > nRead

\* Every send so far has returned a value.
AllReturned == nRead > 0 /\ error \in {"none", "AttributeError"}

\* C1: at most one request is in flight: the requests written exceed the
\* lines read by send by at most one, and a request line is written only
\* while the slot is empty.
C1_OneInFlight ==
    /\ [](nWritten - nRead \in {0, 1})
    /\ [][nWritten' # nWritten => (~SlotOccupied /\ nWritten' = nWritten + 1)]_vars

\* C1 witness: the go, look, handoff, look sequence with the fourth request
\* written after three lines were read.
C1_Witness == script = "handoff" /\ step = 4 /\ pc = "read" /\ nWritten = 4 /\ nRead = 3

\* C2: no request is written before the first line of the child's output
\* has been read.
C2_ReadyBeforeRequest == nWritten > 0 => ready = "line"

\* C3: when the agent has emitted nothing but its ready line and one line per
\* request, the value the k-th send returned is the document of the line the
\* agent emitted for the k-th request, and the slot is empty once it returned.
C3_ResponseExact ==
    (AllReturned /\ strays = 0) =>
        /\ lastRead.for = nRead
        /\ lastRead.line.text = "json"
        /\ result = lastRead.line.val
        /\ (pc # "read" => ~SlotOccupied)

\* C3 witness: the handoff's answer {"elapsed": 50} has been returned and the
\* following look is about to be written.
C3_Witness ==
    /\ script = "handoff" /\ step = 4 /\ pc = "write" /\ strays = 0
    /\ result = ValElapsed /\ lastRead.for = 3

\* A send has read a line that is text but no JSON document.
MalformedRead == error = "JSONDecodeError" /\ lastRead.line.text = "text"

ErrorClass(e) ==
    CASE e = "JSONDecodeError" -> "ProtocolError"
      [] e = "UnicodeDecodeError" -> "ProtocolError"
      [] e = "BrokenPipeError" -> "ProcessTerminated"
      [] OTHER -> "none"

\* C5: a send whose request is pending when the child's output ends fails
\* with ProcessTerminated.
C5_EofIsProcessTerminated ==
    (ready = "line" /\ Closing /\ SlotOccupied) => ErrorClass(error) = "ProcessTerminated"

\* The handoff send of test-handoff.py is blocked in its readline.
HandoffBlocked ==
    script = "handoff" /\ step = HandoffStep /\ pc = "read" /\ ~CanRead

HandoffState ==
    IF step < HandoffStep \/ (step = HandoffStep /\ pc = "write") THEN "Idle"
    ELSE IF step = HandoffStep /\ pc = "read" THEN "AwaitingHuman"
    ELSE IF step > HandoffStep THEN "Resumed"
    ELSE IF nRead = HandoffStep /\ json_loads(lastRead.line).ok THEN "Resumed"
    ELSE IF nRead = HandoffStep THEN "Failed"
    ELSE "ProcessTerminated"

HandoffMoves ==
    { <<"Idle", "AwaitingHuman">>, <<"Idle", "ProcessTerminated">>,
      <<"AwaitingHuman", "Resumed">>, <<"AwaitingHuman", "Failed">>,
      <<"AwaitingHuman", "ProcessTerminated">> }

\* The payload of the handoff's answer lets line 46 read its elapsed member.
ElapsedReadable(r) == r.kind = "obj" /\ r.pkind # "scalar"

C9_StopBounded ==
    ~(ready = "line" /\ pc = "wait" /\ stdinClosed /\ waited > GracePeriod
        /\ agent # "exited")

\* C10: main is left only with the child's input pipe closed and the child
\* waited for.
C10_Released == pc \in {"done", "raised"} => (stdinClosed /\ waitedFor)

\* C11: when the child exits before emitting a line, the ready step fails
\* and main does not go on to send.
C11_NoSessionWithoutReady ==
    (ready = "eof" /\ agent = "exited") => (error # "none" /\ pc \notin {"write", "read"})

\* C12: a value a send returned never comes from an unsolicited line: the
\* line the k-th send read is the one the agent emitted for the k-th request.
C12_StrayNeverReturned ==
    AllReturned => (lastRead.for # 0 /\ lastRead.for = nRead)

\* The line terminators in a sequence of characters.
RECURSIVE CountNL(_)
CountNL(s) ==
    IF s = <<>> THEN 0
    ELSE (IF Head(s) = NL THEN 1 ELSE 0) + CountNL(Tail(s))

\* C13: every request is one line: a send appends to the pipe characters
\* that hold exactly one line terminator, the last of them, so the agent has
\* taken or still finds exactly one line per request written, also when the
\* payload contains a line terminator.
C13_OneLinePerRequest ==
    /\ [](CountNL(stdinPipe) + consumed = nWritten)
    /\ [](stdinPipe # <<>> => stdinPipe[Len(stdinPipe)] = NL)
    /\ [][nWritten' # nWritten =>
            /\ Len(stdinPipe') > Len(stdinPipe)
            /\ SubSeq(stdinPipe', 1, Len(stdinPipe)) = stdinPipe
            /\ CountNL(stdinPipe') = CountNL(stdinPipe) + 1]_vars

\* C13 witness: the act request whose reference contains a line terminator
\* has been written, as the fifth line.
C13_Witness ==
    /\ script = "agent" /\ step = 5 /\ pc = "read" /\ nWritten = 5
    /\ CountNL(js) = 1 /\ CountNL(stdinPipe) = 1 /\ consumed = 4

\* C15: stop on a child that has already terminated raises no error.
C15_StopNoError ==
    (ready = "line" /\ stdinClosed /\ agent = "exited") =>
        ~(pc = "raised" /\ error = "BrokenPipeError")

\* C16: each send is one write of its request line, then one read of one
\* line: a request is written only after every earlier one has had its read,
\* a line is read only for the one request that is pending, a send takes at
\* most one line from the pipe, the lines read never exceed the requests
\* written, and no request is written a second time: after a send, main
\* writes again only for a later step.
C16_WriteReadAlternate ==
    /\ [](nRead <= nWritten)
    /\ [][nWritten' # nWritten =>
            /\ pc = "write" /\ pc' = "read"
            /\ nWritten' = nWritten + 1 /\ nRead' = nRead /\ nRead = nWritten]_vars
    /\ [][nRead' # nRead =>
            /\ pc = "read" /\ pc' # "read"
            /\ nRead' = nRead + 1 /\ nWritten' = nWritten /\ nWritten = nRead + 1
            /\ Len(stdoutPipe') = Len(stdoutPipe) - 1]_vars
    /\ [][(pc = "read" /\ pc' = "write") => step' > step]_vars
    /\ [][(pc = "write" /\ pc' # "write") => pc' \in {"read", "close"}]_vars
    /\ [](nWritten <= step)

\* C16 witness: the six sends of test-agent.py, each written and read once.
C16_Witness == script = "agent" /\ nWritten = 6 /\ nRead = 6 /\ step = 6

\* A send has raised: a decode error, an empty line at end-of-stream or a
\* failed write.
SendRaised ==
    /\ ready = "line"
    /\ error \in {"JSONDecodeError", "UnicodeDecodeError", "BrokenPipeError"}

\* C17: once a send has raised, the success message is not printed and main
\* is in its shutdown: closing the input pipe, waiting for the exit, or done.
C17_AbortToShutdown == SendRaised => (~success /\ pc \in {"close", "wait", "done"})

\* C18: in test-agent.py the act request comes only after the fourth
\* response has been read, only for a "result" whose non-empty actions map
\* offers "input" or "click" under its first key, "input" first; a run that
\* succeeds has written five or six requests, the last of them the look, and
\* writes nothing after it.
C18_ActOnlyAfterLook ==
    /\ []((script = "agent" /\ step = 5) => (nRead >= 4 /\ nWritten >= 4))
    /\ []((script = "agent" /\ step = 5 /\ nRead = 4) =>
            /\ result.kind = "obj" /\ result.command = "result"
            /\ result.pkind = "dict" /\ result.akind = "dict"
            /\ result.acts \cap {"input", "click"} # {}
            /\ js = IF "input" \in result.acts THEN ActInput(result.ref)
                    ELSE ActClick(result.ref))
    /\ []((script = "agent" /\ success) =>
            (nWritten \in {5, 6} /\ nRead = nWritten /\ step = 6 /\ js = Look))
    /\ [][success => nWritten' = nWritten]_vars

\* C18 witness: a successful run of test-agent.py with the act request.
C18_Witness == script = "agent" /\ success /\ nWritten = 6 /\ pc = "done"

\* What test-handoff.py prints as the time the user took: the payload's
\* elapsed member, or "?" when the payload or the member is absent.
elapsed_shown(r) ==
    IF r.pkind = "dict" /\ r.ekind = "int"
    THEN [kind |-> "int", val |-> r.elapsed]
    ELSE [kind |-> "?", val |-> 0]

\* The handoff's answer was read and reported as the user having resumed.
HandoffReported ==
    /\ script = "handoff" /\ ready = "line" /\ error = "none"
    /\ step = HandoffStep + 1 /\ nRead = HandoffStep

\* C14: a handoff reported as resumed reports the elapsed value of the
\* response payload, and that value is a non-negative number.
C14_ElapsedValid ==
    HandoffReported =>
        /\ elapsed_shown(result).kind = "int"
        /\ elapsed_shown(result).val = result.elapsed
        /\ elapsed_shown(result).val >= 0

\* The items of a list and of their sub-lists, in the order of the document.
RECURSIVE Flatten(_)
Flatten(items) ==
    IF items = <<>> THEN <<>>
    ELSE <<Head(items)>> \o Flatten(Head(items).items) \o Flatten(Tail(items))

RECURSIVE AllItems(_)
AllItems(categories) ==
    IF categories = <<>> THEN <<>>
    ELSE Flatten(Head(categories)) \o AllItems(Tail(categories))

\* The item's 'status' key is 'existing'.
LegacyExisting(item) == item.status = "existing"

\* The item's 'v2' key, or its 'status' key when it has no 'v2' key, is
\* 'existing'.
EffectiveExisting(item) ==
    \/ item.v2 = "existing"
    \/ item.v2 = "absent" /\ item.status = "existing"

PendingLine == <<"1.x ", " ">>

\* C19 as stated: the total is the number of items at every depth, and every
\* item whose 'status' is 'existing' is rendered with the 1.x indicator and
\* counted as v1_pending.
C19_LegacyExisting ==
    LET all == AllItems(data)
    IN  /\ genpc \in {"render", "done"} =>
            /\ total = Len(all)
            /\ counts["v1_pending"] >=
                 Cardinality({ i \in 1..Len(all) : LegacyExisting(all[i]) })
        /\ genpc = "done" =>
            \A c \in 1..Len(data) :
                LET flat == Flatten(data[c])
                IN  \A i \in 1..Len(flat) :
                        LegacyExisting(flat[i]) => rendered[c][i] = PendingLine

\* C19 as amended: the total is the number of items at every depth, each
\* item is in one bucket, and every item whose 'v2' key, or 'status' key when
\* there is no 'v2' key, is 'existing' is rendered with the 1.x indicator and
\* counted as v1_pending.
C19_CountsAndExisting ==
    LET all == AllItems(data)
        existing == { i \in 1..Len(all) : EffectiveExisting(all[i]) }
    IN  /\ genpc \in {"render", "done"} =>
            /\ total = Len(all)
            /\ \A b \in Buckets : counts[b] \in 0..total
            /\ counts["v1_pending"] >= Cardinality(existing)
            /\ Cardinality(existing) = Len(all) => counts["v1_pending"] = total
        /\ genpc = "done" =>
            /\ Len(rendered) = Len(data)
            /\ \A c \in 1..Len(data) :
                 LET flat == Flatten(data[c])
                 IN  /\ Len(rendered[c]) = Len(flat)
                     /\ \A i \in 1..Len(flat) :
                          EffectiveExisting(flat[i]) => rendered[c][i] = PendingLine

\* C19 witness: three items nested three deep, the innermost one 'existing'.
C19_Witness ==
    /\ genpc = "done" /\ total = 3 /\ Len(data) = 1 /\ Len(data[1]) = 1
    /\ data[1][1].items # <<>>
    /\ data[1][1].items[1].items # <<>>
    /\ EffectiveExisting(data[1][1].items[1].items[1])
    /\ counts["v1_pending"] >= 1
    /\ rendered[1][3] = PendingLine

====
